---- MODULE Spec2Model ----
(***************************************************************************)
(* A model of DIPlib's framework helpers (src/src/library/framework.cpp),  *)
(* of the labeled-region functions declared in                             *)
(* src/include/diplib/regions.h, of the measurement feature                *)
(* src/src/measurement/feature_grey_dimensions_cube.h and of the MATLAB    *)
(* interface kept in src/examples/CMakeLists.txt.                          *)
(*                                                                         *)
(* Arrays (UnsignedArray, IntegerArray) are sequences; C++ index jj is     *)
(* TLA+ index jj + 1.                                                      *)
(***************************************************************************)
EXTENDS Integers, Sequences, FiniteSets, TLC

VARIABLES
    in,             \* ImageArray handed to SingletonExpandedSize: the operands' Dimensions()
    bcOut,          \* what the last SingletonExpandedSize( in ) call produced
    image,          \* the Image handed to SingletonExpansion / OptimalProcessingDim
    seCall,         \* the last SingletonExpansion call: its outcome, the image before it, the target size
    processingDim,  \* what OptimalProcessingDim( image ) returned (0-based), -1 before any call
    binary,         \* the binary image handed to Label
    labelCall,      \* the last Label call: its arguments and the count it returned
    out,            \* the labeled image Label wrote
    relabelIn,      \* the labeled image handed to Relabel
    relabelOut,     \* the image Relabel returned
    grow,           \* a GrowRegions call: its arguments, its position and the image being grown
    view,           \* the Image::View handed to GetObjectLabels, and the background argument
    objLabels,      \* the labels GetObjectLabels returned
    feature,        \* the FeatureGreyDimensionsCube instance: its fields nD_ and inertiaIndex_
    measurement,    \* the measurement run in progress: registered features, objects, position
    initCall,       \* the last Initialize call of the run: its arguments, inertiaIndex_ before it, the outcome
    composeCall,    \* the last Compose call of the run: the object, the index used, the values written
    mla,            \* MatlabInterface::mla, the map from data pointers to mxArrays
    mx,             \* every mxArray created so far: its description and what became of it
    dipImages,      \* the dip::Image objects alive, each sharing a data segment
    getCall         \* the GetArray call just made, if the last step was one: its image, what it returned

bcVars == << in, bcOut >>
imgVars == << image, seCall, processingDim >>
labelVars == << binary, labelCall, out >>
relabelVars == << relabelIn, relabelOut >>
viewVars == << view, objLabels >>
regionVars == << labelVars, relabelVars, grow, viewVars >>

featVars == << feature, measurement, initCall, composeCall >>
mlVars == << mla, mx, dipImages, getCall >>

vars == << bcVars, imgVars, regionVars, featVars, mlVars >>

(***************************************************************************)
(* Bounds of the model.                                                    *)
(***************************************************************************)
MaxOperands == 3        \* longest ImageArray handed to SingletonExpandedSize
MaxDims == 3            \* largest dimensionality of an image / target handed to SingletonExpansion
MaxOptDims == 3         \* largest dimensionality of an image handed to OptimalProcessingDim
DimSizes == {1, 2, 3}   \* extents a dimension may have
ImgStrides == {0, 2}    \* strides a dimension of a fresh image may have
DataBlocks == {1, 2}    \* identities of data segments
LabelW == 3             \* width of the binary image handed to Label (its height is 2)
RelabelPixels == 4      \* number of pixels of the labeled image handed to Relabel
MaxLabel == 4           \* largest label value in that image
GrowW == 3              \* width of the labeled image handed to GrowRegions (its height is 2)
ViewPixels == 3         \* number of pixels of the image a view refers to
ViewMaxLabel == 2       \* largest label value in that image
MaxOffsets == 2         \* largest number of indices that define a view
OptExtents == {10, 63, 64, 100}   \* extents around SMALL_IMAGE
OptStrides == {-2, 1, 2, 3}       \* signed strides (a mirrored dimension has a negative one)

ShapesUpTo(n) == UNION { [1..k -> DimSizes] : k \in 0..n }

\* Operand sizes: dimensionalities 0, 1 and 2, extents 0 to 3.
OperandExtents == {0, 1, 2, 3}
Shapes == UNION { [1..k -> OperandExtents] : k \in 0..2 }

Max(a, b) == IF a >= b THEN a ELSE b

NoCall == [status |-> "none", size |-> << >>]

\* An image with no dimensions: what the variables hold while a machine does not use them.
RawImage == [sizes |-> << >>, strides |-> << >>, data |-> 1]
NoExpansion == [status |-> "none", before |-> RawImage, size |-> << >>]

\* A mask image that was not forged (an empty Image{}), and the calls not made yet.
NoMask == [forged |-> FALSE, px |-> {}]
NoLabelCall == [status |-> "none", via |-> "none", connectivity |-> 0, minSize |-> 0,
                maxSize |-> 0, nLabel |-> -1]
NoGrowArgs == [label |-> << >>, mask |-> NoMask, connectivity |-> 1, iterations |-> 0]
NoGrow == [pc |-> "idle", args |-> NoGrowArgs, call |-> NoGrowArgs, step |-> 0, out |-> << >>]
NoView == [reference |-> << >>, mask |-> NoMask, offsets |-> << >>, background |-> "exclude"]
NoObjLabels == [status |-> "none", image |-> << >>, mask |-> NoMask, labels |-> << >>]

\* What the variables of a machine hold while another machine runs.
BroadcastIdle == in = << >> /\ bcOut = NoCall
ImageIdle == image = RawImage /\ seCall = NoExpansion /\ processingDim = -1
LabelIdle == binary = << >> /\ labelCall = NoLabelCall /\ out = << >>
RelabelIdle == relabelIn = << >> /\ relabelOut = << >>
GrowIdle == grow = NoGrow
ViewIdle == view = NoView /\ objLabels = NoObjLabels
RegionsIdle == LabelIdle /\ RelabelIdle /\ GrowIdle /\ ViewIdle

\* A feature object not used yet, no measurement configured, no call made.
NoFeature == [nD_ |-> 0, inertiaIndex_ |-> -1]
NoLabelImage == [dimensionality |-> 0, pixelSize |-> << >>]
NoMeasurement == [pc |-> "idle", features |-> << >>, nObjects |-> 0, composed |-> 0, lookups |-> 0]
NoInitialize == [status |-> "none", label |-> NoLabelImage, greyScalar |-> TRUE, cached |-> -1,
                 out |-> << >>]
NoCompose == [object |-> 0, index |-> -1, lookup |-> FALSE, output |-> << >>]
FeatureIdle ==
    feature = NoFeature /\ measurement = NoMeasurement /\ initCall = NoInitialize /\ composeCall = NoCompose

\* An interface that allocated nothing and was asked for nothing.
NoImage == [data |-> 0, origin |-> 0, sizes |-> << >>, strides |-> << >>, telem |-> 1, tstride |-> 1,
            dt |-> "UINT8"]
NoGetArray == [status |-> "none", image |-> NoImage, array |-> 0, copied |-> FALSE, dims |-> << >>]
MatlabIdle == mla = {} /\ mx = << >> /\ dipImages = {} /\ getCall = NoGetArray

(***************************************************************************)
(* framework.cpp:16-32, the static helper.  `size` is updated in place and *)
(* the call throws E::DIMENSIONS_DONT_MATCH at the first jj where both     *)
(* sizes differ and neither is 1.  The result records whether it threw and *)
(* the value of `size` when it returned or threw.                          *)
(***************************************************************************)
Resize(size, n, v) ==
    IF Len(size) < n THEN size \o [k \in 1..(n - Len(size)) |-> v] ELSE size

\* Mutant: line 26 forgotten, a singleton of `size` is never replaced.
RECURSIVE ExpandLoopKeepsOne(_, _, _)
ExpandLoopKeepsOne(size, size2, jj) ==
    IF jj > Len(size2) THEN [threw |-> FALSE, size |-> size]
    ELSE IF size[jj] # size2[jj] /\ size[jj] # 1 /\ size2[jj] # 1
         THEN [threw |-> TRUE, size |-> size]
         ELSE ExpandLoopKeepsOne(size, size2, jj + 1)

\* Mutant: the test of line 27 forgotten, a singleton of `size2` is rejected.
RECURSIVE ExpandLoopStrict(_, _, _)
ExpandLoopStrict(size, size2, jj) ==
    IF jj > Len(size2) THEN [threw |-> FALSE, size |-> size]
    ELSE IF size[jj] # size2[jj]
         THEN IF size[jj] = 1
              THEN ExpandLoopStrict([size EXCEPT ![jj] = size2[jj]], size2, jj + 1)
              ELSE [threw |-> TRUE, size |-> size]
         ELSE ExpandLoopStrict(size, size2, jj + 1)

RECURSIVE ExpandLoop(_, _, _)
ExpandLoop(size, size2, jj) ==
    IF jj > Len(size2) THEN [threw |-> FALSE, size |-> size]
    ELSE IF size[jj] # size2[jj]
         THEN IF size[jj] = 1
              THEN ExpandLoop([size EXCEPT ![jj] = size2[jj]], size2, jj + 1)
              ELSE IF size2[jj] # 1
                   THEN [threw |-> TRUE, size |-> size]
                   ELSE ExpandLoop(size, size2, jj + 1)
         ELSE ExpandLoop(size, size2, jj + 1)

SingletonExpandedSize2(size, size2) ==
    ExpandLoop(Resize(size, Len(size2), 1), size2, 1)

(***************************************************************************)
(* framework.cpp:47-56 (and the identical 35-44): the fold over the        *)
(* operands, left to right, starting from in[0].Dimensions().              *)
(***************************************************************************)
RECURSIVE FoldSizes(_, _, _)
FoldSizes(size, ops, ii) ==
    IF ii > Len(ops) THEN [status |-> "ok", size |-> size]
    ELSE LET r == SingletonExpandedSize2(size, ops[ii])
         IN IF r.threw THEN [status |-> "DIMENSIONS_DONT_MATCH", size |-> << >>]
            ELSE FoldSizes(r.size, ops, ii + 1)

\* Mutant: the loop bound of line 51 off by one, the last operand is not looked at.
SingletonExpandedSizeSkipsLast(ops) ==
    FoldSizes(ops[1], SubSeq(ops, 1, Max(1, Len(ops) - 1)), 2)

SingletonExpandedSize(ops) ==
    FoldSizes(ops[1], ops, 2)

(***************************************************************************)
(* The broadcasting machine: a caller collects operands and asks for the   *)
(* common size.                                                            *)
(***************************************************************************)
AddOperand ==
    /\ Len(in) < MaxOperands
    /\ \E s \in Shapes : in' = Append(in, s)
    /\ bcOut' = NoCall
    /\ UNCHANGED << imgVars, regionVars, featVars, mlVars >>

CallSingletonExpandedSize ==
    /\ Len(in) >= 1          \* in[0] is read unconditionally (line 50)
    /\ bcOut' = SingletonExpandedSize(in)
    /\ UNCHANGED << in, imgVars, regionVars, featVars, mlVars >>

ClearOperands ==
    /\ in # << >>
    /\ in' = << >>
    /\ bcOut' = NoCall
    /\ UNCHANGED << imgVars, regionVars, featVars, mlVars >>

BroadcastInit ==
    /\ BroadcastIdle
    /\ ImageIdle
    /\ RegionsIdle
    /\ FeatureIdle /\ MatlabIdle

BroadcastNext == AddOperand \/ CallSingletonExpandedSize \/ ClearOperands

SpecBroadcast == BroadcastInit /\ [][BroadcastNext]_vars

(***************************************************************************)
(* Claims about SingletonExpandedSize, checked under SpecBroadcast.        *)
(***************************************************************************)
\* The extent of shape s at dimension d, a missing dimension counting as 1.
DimAt(s, d) == IF d <= Len(s) THEN s[d] ELSE 1

MaxRankOf(ops) == CHOOSE n \in { Len(ops[i]) : i \in 1..Len(ops) } :
                     \A i \in 1..Len(ops) : Len(ops[i]) <= n

\* The sizes other than 1 that the operands have at dimension d.
NonSingletonSizes(ops, d) == { DimAt(ops[i], d) : i \in 1..Len(ops) } \ {1}

\* C1: when SingletonExpandedSize succeeds on a non-empty operand list, the
\* result has the maximum operand rank, and at each dimension it is the one
\* size other than 1 that the operands have there, or 1 when all have 1.
C1_ResultShape ==
    bcOut.status = "ok" =>
        /\ Len(bcOut.size) = MaxRankOf(in)
        /\ \A d \in 1..Len(bcOut.size) :
              IF NonSingletonSizes(in, d) = {}
              THEN bcOut.size[d] = 1
              ELSE NonSingletonSizes(in, d) = { bcOut.size[d] }

\* C1 witness: three operands of different ranks, a successful call, and a
\* result that is none of the operands.
C1_Witness ==
    /\ bcOut.status = "ok"
    /\ Len(in) = 3
    /\ Len(in[1]) < Len(in[2])
    /\ \A i \in 1..3 : in[i] # bcOut.size

\* Two operands whose sizes at some dimension differ and are both not 1.
Incompatible(ops) ==
    \E d \in 1..MaxRankOf(ops) : \E i, j \in 1..Len(ops) :
        /\ DimAt(ops[i], d) # DimAt(ops[j], d)
        /\ DimAt(ops[i], d) # 1
        /\ DimAt(ops[j], d) # 1

\* C2: SingletonExpandedSize throws DIMENSIONS_DONT_MATCH exactly when two
\* operands have, at some dimension, unequal sizes both different from 1; in
\* every other case it returns a size.
C2_FailsIffIncompatible ==
    bcOut.status # "none" =>
        /\ bcOut.status \in {"ok", "DIMENSIONS_DONT_MATCH"}
        /\ (bcOut.status = "DIMENSIONS_DONT_MATCH") <=> Incompatible(in)

\* C2 witness: the call threw although the first two operands are compatible
\* with each other (the clash is with the third one).
C2_Witness ==
    /\ bcOut.status = "DIMENSIONS_DONT_MATCH"
    /\ Len(in) = 3
    /\ ~Incompatible(SubSeq(in, 1, 2))

\* C3: for three operands A, B, C the call on [A, B, C] and the call on
\* [C, A, B] both throw or both return the same size.
C3_OrderIndependent ==
    (bcOut.status # "none" /\ Len(in) = 3) =>
        bcOut = SingletonExpandedSize(<< in[3], in[1], in[2] >>)

\* C3 witness: three different operands, a successful call.
C3_Witness ==
    /\ bcOut.status = "ok"
    /\ Len(in) = 3
    /\ in[1] # in[2] /\ in[2] # in[3] /\ in[1] # in[3]
    /\ bcOut.size # in[1]

(***************************************************************************)
(* Image::ExpandDimensionality and Image::ExpandSingletonDimension are     *)
(* members of dip::Image, declared in diplib.h.  An image is its sizes,    *)
(* its strides and the identity of its data segment.                       *)
(***************************************************************************)
\* Appends singleton dimensions until the image has n of them.
ExpandDimensionality(img, n) ==
    [img EXCEPT !.sizes = Resize(img.sizes, n, 1),
                !.strides = Resize(img.strides, n, 1)]

\* Dimension dim (1-based here) must be a singleton; it gets size sz and stride 0.
ExpandSingletonDimension(img, dim, sz) ==
    IF img.sizes[dim] # 1
    THEN [threw |-> TRUE, image |-> img]
    ELSE [threw |-> FALSE,
          image |-> [img EXCEPT !.sizes[dim] = sz, !.strides[dim] = 0]]

(***************************************************************************)
(* framework.cpp:59-73.  size2 is a copy of the image's sizes taken before *)
(* the loop (line 67); the image itself is changed dimension by dimension, *)
(* so when ExpandSingletonDimension throws, the dimensions before ii stay  *)
(* expanded.                                                               *)
(***************************************************************************)
RECURSIVE ExpansionLoop(_, _, _, _, _)
ExpansionLoop(img, size2, size, ii, ndims) ==
    IF ii > ndims THEN [threw |-> FALSE, image |-> img]
    ELSE IF size2[ii] # size[ii]
         THEN LET r == ExpandSingletonDimension(img, ii, size[ii])
              IN IF r.threw THEN r
                 ELSE ExpansionLoop(r.image, size2, size, ii + 1, ndims)
         ELSE ExpansionLoop(img, size2, size, ii + 1, ndims)

\* Mutant: the loop of line 68 stops one dimension early.
SingletonExpansionSkipsLast(img, size) ==
    LET ndims == Len(size)
        in1 == IF Len(img.sizes) < ndims THEN ExpandDimensionality(img, ndims) ELSE img
    IN ExpansionLoop(in1, in1.sizes, size, 1, ndims - 1)

SingletonExpansion(img, size) ==
    LET ndims == Len(size)
        in1 == IF Len(img.sizes) < ndims THEN ExpandDimensionality(img, ndims) ELSE img
    IN ExpansionLoop(in1, in1.sizes, size, 1, ndims)

Images(n) ==
    UNION { [sizes : [1..k -> DimSizes], strides : [1..k -> ImgStrides], data : DataBlocks]
            : k \in 0..n }

\* The framework adjusts each input image once (one call per image).
CallSingletonExpansion ==
    /\ seCall.status = "none"
    /\ \E size \in ShapesUpTo(MaxDims) :
        LET r == SingletonExpansion(image, size)
        IN /\ image' = r.image
           /\ seCall' = [status |-> IF r.threw THEN "threw" ELSE "ok",
                         before |-> image, size |-> size]
           /\ UNCHANGED << bcVars, processingDim, regionVars, featVars, mlVars >>

ExpandInit ==
    /\ image \in Images(MaxDims)
    /\ seCall = NoExpansion
    /\ processingDim = -1
    /\ BroadcastIdle
    /\ RegionsIdle
    /\ FeatureIdle /\ MatlabIdle

ExpandNext == CallSingletonExpansion

SpecExpand == ExpandInit /\ [][ExpandNext]_vars

(***************************************************************************)
(* Claims about SingletonExpansion, checked under SpecExpand.              *)
(***************************************************************************)
SameDimension(a, b, d) == a.sizes[d] = b.sizes[d] /\ a.strides[d] = b.strides[d]

\* What the claims say of the dimensions of the target: the size is the
\* target's, a dimension whose size changed has stride 0, a dimension whose
\* size already matched keeps its stride.
ExpandedTo(img, before, size) ==
    /\ Len(img.sizes) >= Len(size)
    /\ Len(img.strides) = Len(img.sizes)
    /\ \A d \in 1..Len(size) :
          /\ img.sizes[d] = size[d]
          /\ DimAt(before.sizes, d) # size[d] => img.strides[d] = 0
          /\ (d <= Len(before.sizes) /\ before.sizes[d] = size[d])
                => img.strides[d] = before.strides[d]
    /\ img.data = before.data

\* C4 as stated: whenever SingletonExpansion returns, for any image and any
\* target, the image has the target's rank and sizes, changed dimensions have
\* stride 0, matching ones keep their stride, and the data segment is the same.
C4_AsStated ==
    seCall.status = "ok" =>
        /\ Len(image.sizes) = Len(seCall.size)
        /\ ExpandedTo(image, seCall.before, seCall.size)

\* C4 amended: whenever SingletonExpansion returns, the image's rank is the
\* larger of its rank before and the target's (the target's rank when the
\* image had no more dimensions than the target); in every dimension of the
\* target the size is the target's, changed dimensions have stride 0,
\* matching ones keep their stride; dimensions beyond the target's are as
\* before; the data segment is the same.
C4_Expanded ==
    seCall.status = "ok" =>
        /\ Len(image.sizes) = Max(Len(seCall.before.sizes), Len(seCall.size))
        /\ Len(seCall.before.sizes) <= Len(seCall.size)
              => Len(image.sizes) = Len(seCall.size)
        /\ ExpandedTo(image, seCall.before, seCall.size)
        /\ \A d \in (Len(seCall.size) + 1)..Len(image.sizes) :
              SameDimension(image, seCall.before, d)

\* C4 witness: a call that returned after appending a dimension, expanding a
\* singleton and leaving a matching dimension with a non-zero stride alone.
C4_Witness ==
    /\ seCall.status = "ok"
    /\ Len(seCall.before.sizes) < Len(seCall.size)
    /\ \E d \in 1..Len(seCall.before.sizes) :
          seCall.before.sizes[d] = 1 /\ seCall.size[d] # 1 /\ seCall.before.strides[d] # 0
    /\ \E d \in 1..Len(seCall.before.sizes) :
          seCall.before.sizes[d] = seCall.size[d] /\ image.strides[d] # 0

\* C6: when SingletonExpansion throws because a dimension differs from the
\* target and is not a singleton, the image is as it was before the call.
C6_UnmodifiedOnFailure ==
    seCall.status = "threw" => image = seCall.before

(***************************************************************************)
(* framework.cpp:77-94.  Strides are signed (IntegerArray) and compared as *)
(* such.  processingDim and ii are 1-based in the loop below; the function *)
(* returns the 0-based index.                                              *)
(***************************************************************************)
SMALL_IMAGE == 63

\* Mutant: line 85 with <=, a later dimension of equal stride takes over.
RECURSIVE OptimalLoopLaterWins(_, _, _, _)
OptimalLoopLaterWins(strides, dims, pd, ii) ==
    IF ii > Len(strides) THEN pd
    ELSE IF strides[ii] <= strides[pd]
         THEN IF (dims[ii] > SMALL_IMAGE) \/ (dims[ii] > dims[pd])
              THEN OptimalLoopLaterWins(strides, dims, ii, ii + 1)
              ELSE OptimalLoopLaterWins(strides, dims, pd, ii + 1)
         ELSE IF (dims[pd] <= SMALL_IMAGE) /\ (dims[ii] > dims[pd])
              THEN OptimalLoopLaterWins(strides, dims, ii, ii + 1)
              ELSE OptimalLoopLaterWins(strides, dims, pd, ii + 1)

\* Mutant: line 89 with <, a dimension of extent SMALL_IMAGE counts as large.
RECURSIVE OptimalLoopSmallBelow(_, _, _, _)
OptimalLoopSmallBelow(strides, dims, pd, ii) ==
    IF ii > Len(strides) THEN pd
    ELSE IF strides[ii] < strides[pd]
         THEN IF (dims[ii] > SMALL_IMAGE) \/ (dims[ii] > dims[pd])
              THEN OptimalLoopSmallBelow(strides, dims, ii, ii + 1)
              ELSE OptimalLoopSmallBelow(strides, dims, pd, ii + 1)
         ELSE IF (dims[pd] < SMALL_IMAGE) /\ (dims[ii] > dims[pd])
              THEN OptimalLoopSmallBelow(strides, dims, ii, ii + 1)
              ELSE OptimalLoopSmallBelow(strides, dims, pd, ii + 1)

RECURSIVE OptimalLoop(_, _, _, _)
OptimalLoop(strides, dims, pd, ii) ==
    IF ii > Len(strides) THEN pd
    ELSE IF strides[ii] < strides[pd]
         THEN IF (dims[ii] > SMALL_IMAGE) \/ (dims[ii] > dims[pd])
              THEN OptimalLoop(strides, dims, ii, ii + 1)
              ELSE OptimalLoop(strides, dims, pd, ii + 1)
         ELSE IF (dims[pd] <= SMALL_IMAGE) /\ (dims[ii] > dims[pd])
              THEN OptimalLoop(strides, dims, ii, ii + 1)
              ELSE OptimalLoop(strides, dims, pd, ii + 1)

OptimalProcessingDim(img) == OptimalLoop(img.strides, img.sizes, 1, 2) - 1

OptImages(n) ==
    UNION { [sizes : [1..k -> OptExtents], strides : [1..k -> OptStrides], data : {1}]
            : k \in 0..n }

CallOptimalProcessingDim ==
    /\ processingDim' = OptimalProcessingDim(image)
    /\ UNCHANGED << bcVars, image, seCall, regionVars, featVars, mlVars >>

OptimalInit ==
    /\ image \in OptImages(MaxOptDims)
    /\ processingDim = -1
    /\ seCall = NoExpansion
    /\ BroadcastIdle
    /\ RegionsIdle
    /\ FeatureIdle /\ MatlabIdle

OptimalNext == CallOptimalProcessingDim

SpecOptimal == OptimalInit /\ [][OptimalNext]_vars

(***************************************************************************)
(* Claims about OptimalProcessingDim, checked under SpecOptimal.           *)
(***************************************************************************)
Abs(x) == IF x < 0 THEN -x ELSE x

\* The dimensions (1-based) whose stride has the smallest magnitude.
SmallestMagnitude(img) ==
    { m \in 1..Len(img.strides) :
        \A k \in 1..Len(img.strides) : Abs(img.strides[m]) <= Abs(img.strides[k]) }

\* Dimension m is small and some other dimension is strictly longer.
SmallWithLonger(img, m) ==
    /\ img.sizes[m] <= SMALL_IMAGE
    /\ \E k \in 1..Len(img.sizes) : k # m /\ img.sizes[k] > img.sizes[m]

\* C5: OptimalProcessingDim returns the dimension with the smallest stride
\* magnitude, unless that dimension has extent <= 63 and another dimension is
\* strictly longer; only then does it return a dimension of larger extent.
C5_SmallestStrideUnlessSmall ==
    (processingDim # -1 /\ Len(image.sizes) >= 1) =>
        LET r == processingDim + 1
        IN \/ r \in SmallestMagnitude(image)
           \/ \E m \in SmallestMagnitude(image) :
                 /\ SmallWithLonger(image, m)
                 /\ r \in 1..Len(image.sizes)
                 /\ image.sizes[r] > image.sizes[m]

(***************************************************************************)
(* Labeled regions (regions.h).  A 2D image of width W is the sequence of  *)
(* its pixels in raster order: pixel p (1-based) has coordinates           *)
(* ( (p-1) % W, (p-1) \div W ).  Two pixels are neighbors under            *)
(* connectivity c when they differ by at most 1 along each dimension and   *)
(* along at most c dimensions.  The image edge is a hard stop (the default *)
(* boundary condition).                                                    *)
(***************************************************************************)
PixelX(p, W) == (p - 1) % W
PixelY(p, W) == (p - 1) \div W

Adjacent(p, q, W, c) ==
    LET dx == Abs(PixelX(p, W) - PixelX(q, W))
        dy == Abs(PixelY(p, W) - PixelY(q, W))
    IN p # q /\ dx <= 1 /\ dy <= 1 /\ dx + dy <= c

\* Label's connectivity argument: 0 stands for the image's dimensionality.
LabelConnectivity(connectivity) == IF connectivity = 0 THEN 2 ELSE connectivity

SetMin(S) == CHOOSE x \in S : \A y \in S : x <= y

(***************************************************************************)
(* dip::Label (regions.h:58-65; the definition is in the library).  A      *)
(* union-find forest over provisional labels is built in one raster scan   *)
(* that looks at the neighbors already visited; a second pass replaces     *)
(* each provisional label by its root and numbers the roots 1..M; objects  *)
(* outside [minSize, maxSize] (0 disables a limit) are set to 0 and not    *)
(* counted, the labels of the others stay as they are.                     *)
(***************************************************************************)
RECURSIVE FindRoot(_, _)
FindRoot(parent, a) == IF parent[a] = a THEN a ELSE FindRoot(parent, parent[a])

RECURSIVE LabelScan(_, _, _, _, _)
LabelScan(bin, W, c, p, st) ==
    IF p > Len(bin) THEN st
    ELSE IF ~bin[p] THEN LabelScan(bin, W, c, p + 1, st)
    ELSE LET visited == { q \in 1..(p - 1) : bin[q] /\ Adjacent(p, q, W, c) }
             roots == { FindRoot(st.parent, st.lab[q]) : q \in visited }
         IN IF roots = {}
            THEN LabelScan(bin, W, c, p + 1,
                           [st EXCEPT !.lab[p] = st.next, !.next = st.next + 1])
            ELSE LET r == SetMin(roots)
                 IN LabelScan(bin, W, c, p + 1,
                       [st EXCEPT !.lab[p] = r,
                                  !.parent = [a \in DOMAIN st.parent |->
                                                 IF st.parent[a] \in roots THEN r
                                                 ELSE st.parent[a]]])

ObjectSize(img, l) == Cardinality({ p \in 1..Len(img) : img[p] = l })

SizeAccepted(n, minSize, maxSize) ==
    /\ (minSize = 0 \/ n >= minSize)
    /\ (maxSize = 0 \/ n <= maxSize)

Label(bin, W, connectivity, minSize, maxSize) ==
    LET N == Len(bin)
        c == LabelConnectivity(connectivity)
        st == LabelScan(bin, W, c, 1,
                        [lab |-> [q \in 1..N |-> 0], parent |-> [a \in 1..N |-> a], next |-> 1])
        root == [q \in 1..N |-> IF st.lab[q] = 0 THEN 0 ELSE FindRoot(st.parent, st.lab[q])]
        roots == { root[q] : q \in 1..N } \ {0}
        numbered == [q \in 1..N |-> Cardinality({ r \in roots : r <= root[q] })]
        kept == { l \in 1..Cardinality(roots) :
                     SizeAccepted(ObjectSize(numbered, l), minSize, maxSize) }
    IN [out |-> [q \in 1..N |-> IF numbered[q] \in kept THEN numbered[q] ELSE 0],
        nLabel |-> Cardinality(kept)]

\* Mutant: the size limits handed over in the wrong order.
LabelInlineSwapsLimits(bin, W, connectivity, minSize, maxSize) ==
    Label(bin, W, connectivity, maxSize, minSize).out

\* regions.h:66-76: the overload that returns the labeled image (and drops the count).
LabelInline(bin, W, connectivity, minSize, maxSize) ==
    Label(bin, W, connectivity, minSize, maxSize).out

LabelConnectivities == {0, 1, 2}
SizeLimits == {0, 2, 3}

CallLabel ==
    /\ labelCall.status = "none"
    /\ \E c \in LabelConnectivities, minSize \in SizeLimits, maxSize \in SizeLimits :
          LET r == Label(binary, LabelW, c, minSize, maxSize)
          IN /\ out' = r.out
             /\ labelCall' = [status |-> "ok", via |-> "out", connectivity |-> c,
                              minSize |-> minSize, maxSize |-> maxSize, nLabel |-> r.nLabel]
    /\ UNCHANGED << bcVars, imgVars, binary, relabelVars, grow, viewVars, featVars, mlVars >>

CallLabelInline ==
    /\ labelCall.status = "none"
    /\ \E c \in LabelConnectivities, minSize \in SizeLimits, maxSize \in SizeLimits :
          /\ out' = LabelInline(binary, LabelW, c, minSize, maxSize)
          /\ labelCall' = [status |-> "ok", via |-> "inline", connectivity |-> c,
                           minSize |-> minSize, maxSize |-> maxSize, nLabel |-> -1]
    /\ UNCHANGED << bcVars, imgVars, binary, relabelVars, grow, viewVars, featVars, mlVars >>

LabelInit ==
    /\ binary \in [1..(LabelW * 2) -> BOOLEAN]
    /\ labelCall = NoLabelCall
    /\ out = << >>
    /\ BroadcastIdle /\ ImageIdle /\ RelabelIdle /\ GrowIdle /\ ViewIdle
    /\ FeatureIdle /\ MatlabIdle

LabelNext == CallLabel \/ CallLabelInline

SpecLabel == LabelInit /\ [][LabelNext]_vars

(***************************************************************************)
(* Claims about Label, checked under SpecLabel.                            *)
(***************************************************************************)
\* The pixels reachable from those of S through neighboring foreground pixels.
RECURSIVE Reach(_, _, _, _)
Reach(S, bin, W, c) ==
    LET T == S \cup { q \in 1..Len(bin) : bin[q] /\ \E p \in S : Adjacent(p, q, W, c) }
    IN IF T = S THEN S ELSE Reach(T, bin, W, c)

\* The connected component of foreground pixel p.
Component(p, bin, W, c) == Reach({p}, bin, W, c)

RECURSIVE Ascending(_)
Ascending(S) ==
    IF S = {} THEN << >> ELSE << SetMin(S) >> \o Ascending(S \ { SetMin(S) })

ScannedPixels(img, mask) ==
    IF mask.forged THEN { p \in 1..Len(img) : p \in mask.px } ELSE 1..Len(img)

GetObjectLabels(img, mask, background) ==
    LET found == { img[p] : p \in ScannedPixels(img, mask) }
    IN Ascending(IF background = "include" THEN found ELSE found \ {0})

(***************************************************************************)
(* dip::Relabel( label, out ) (regions.h:101; the definition is in the     *)
(* library): the labels present, in ascending order, are renumbered        *)
(* 1, 2, ...; 0 stays 0.                                                   *)
(***************************************************************************)
IndexOf(seq, v) == CHOOSE i \in 1..Len(seq) : seq[i] = v

Relabel(img) ==
    LET labels == GetObjectLabels(img, NoMask, "exclude")
    IN [p \in 1..Len(img) |-> IF img[p] = 0 THEN 0 ELSE IndexOf(labels, img[p])]

\* Mutant: the wrapper returns its input instead of `out`.
RelabelInlineReturnsInput(img) == img

\* regions.h:102-106.
RelabelInline(img) == Relabel(img)

CallRelabel ==
    /\ relabelOut = << >>
    /\ relabelOut' = RelabelInline(relabelIn)
    /\ UNCHANGED << bcVars, imgVars, labelVars, relabelIn, grow, viewVars, featVars, mlVars >>

RelabelInit ==
    /\ relabelIn \in [1..RelabelPixels -> 0..MaxLabel]
    /\ relabelOut = << >>
    /\ BroadcastIdle /\ ImageIdle /\ LabelIdle /\ GrowIdle /\ ViewIdle
    /\ FeatureIdle /\ MatlabIdle

RelabelNext == CallRelabel

SpecRelabel == RelabelInit /\ [][RelabelNext]_vars

(***************************************************************************)
(* Claims about Relabel, checked under SpecRelabel.                        *)
(***************************************************************************)
PositiveValues(img) == { img[p] : p \in 1..Len(img) } \ {0}

\* C8: for a labeled image with K distinct positive labels, the positive
\* values of Relabel's result are exactly 1..K, two pixels get the same new
\* label iff they had the same label, a < b implies new(a) < new(b), and
\* background pixels stay 0.
C8_RelabelContiguous ==
    relabelOut # << >> =>
        LET pixels == 1..Len(relabelIn)
            K == Cardinality(PositiveValues(relabelIn))
        IN /\ Len(relabelOut) = Len(relabelIn)
           /\ PositiveValues(relabelOut) = 1..K
           /\ \A p \in pixels : (relabelIn[p] = 0) <=> (relabelOut[p] = 0)
           /\ \A p, q \in pixels :
                 /\ (relabelIn[p] = relabelIn[q]) <=> (relabelOut[p] = relabelOut[q])
                 /\ (relabelIn[p] < relabelIn[q]) => (relabelOut[p] < relabelOut[q])

\* C8 witness: an image with background and three labels that are neither
\* contiguous nor in pixel order, relabeled to something else.
C8_Witness ==
    /\ relabelOut # << >>
    /\ relabelOut # relabelIn
    /\ Cardinality(PositiveValues(relabelIn)) = 3
    /\ \E p \in 1..Len(relabelIn) : relabelIn[p] = 0
    /\ \E p, q \in 1..Len(relabelIn) : p < q /\ relabelIn[p] > relabelIn[q] /\ relabelIn[q] > 0

(***************************************************************************)
(* dip::GrowRegions( label, mask, out, connectivity, iterations )          *)
(* (regions.h:151-157; the definition is in the library).  Every step      *)
(* dilates all regions at once: a pixel with label 0, inside the mask when *)
(* one is given, takes the label of its labeled neighbors when they all    *)
(* carry the same label, and stays 0 when they carry different ones.       *)
(* iterations = 0 repeats the step until nothing changes.  connectivity is *)
(* 1 or 2 here (the alternating connectivities are left out).              *)
(***************************************************************************)
NeighborLabels(img, p, W, c) ==
    { img[q] : q \in { n \in 1..Len(img) : Adjacent(p, n, W, c) } } \ {0}

InsideMask(mask, p) == ~mask.forged \/ p \in mask.px

GrowStepImage(img, mask, W, c) ==
    [p \in 1..Len(img) |->
        IF img[p] # 0 THEN img[p]
        ELSE IF ~InsideMask(mask, p) THEN 0
        ELSE LET nl == NeighborLabels(img, p, W, c)
             IN IF Cardinality(nl) = 1 THEN SetMin(nl) ELSE 0]

\* Mutant: the wrapper hands over an empty mask.
GrowRegionsInlineDropsMask(label, mask, connectivity, iterations) ==
    [label |-> label, mask |-> NoMask, connectivity |-> connectivity,
     iterations |-> iterations]

\* regions.h:158-167: the overload that returns `out`; what it hands over
\* to GrowRegions( label, mask, out, connectivity, iterations ).
GrowRegionsInline(label, mask, connectivity, iterations) ==
    [label |-> label, mask |-> mask, connectivity |-> connectivity,
     iterations |-> iterations]

\* No mask, or a mask that leaves out at most one pixel.
GrowMasks ==
    { NoMask } \cup { [forged |-> TRUE, px |-> 1..(GrowW * 2)] }
               \cup { [forged |-> TRUE, px |-> (1..(GrowW * 2)) \ {h}] : h \in 1..(GrowW * 2) }

\* grow.args is what the caller gave, grow.call what the library function got.
CallGrowRegions ==
    /\ grow.pc = "idle"
    /\ \E label \in [1..(GrowW * 2) -> {0, 1, 2}], mask \in GrowMasks,
          c \in {1, 2}, iterations \in {0, 1} :
          LET call == GrowRegionsInline(label, mask, c, iterations)
          IN grow' = [pc |-> "growing",
                      args |-> [label |-> label, mask |-> mask, connectivity |-> c,
                                iterations |-> iterations],
                      call |-> call, step |-> 0, out |-> call.label]
    /\ UNCHANGED << bcVars, imgVars, labelVars, relabelVars, viewVars, featVars, mlVars >>

\* One iteration of the growth loop.
GrowStep ==
    /\ grow.pc = "growing"
    /\ grow.call.iterations = 0 \/ grow.step < grow.call.iterations
    /\ LET next == GrowStepImage(grow.out, grow.call.mask, GrowW, grow.call.connectivity)
       IN /\ next # grow.out
          /\ grow' = [grow EXCEPT !.out = next, !.step = grow.step + 1]
    /\ UNCHANGED << bcVars, imgVars, labelVars, relabelVars, viewVars, featVars, mlVars >>

\* The loop ends: the iterations are used up, or nothing changes any more.
GrowReturn ==
    /\ grow.pc = "growing"
    /\ \/ grow.call.iterations # 0 /\ grow.step = grow.call.iterations
       \/ GrowStepImage(grow.out, grow.call.mask, GrowW, grow.call.connectivity) = grow.out
    /\ grow' = [grow EXCEPT !.pc = "done"]
    /\ UNCHANGED << bcVars, imgVars, labelVars, relabelVars, viewVars, featVars, mlVars >>

GrowInit ==
    /\ grow = NoGrow
    /\ BroadcastIdle /\ ImageIdle /\ LabelIdle /\ RelabelIdle /\ ViewIdle
    /\ FeatureIdle /\ MatlabIdle

GrowNext == CallGrowRegions \/ GrowStep \/ GrowReturn

SpecGrow == GrowInit /\ [][GrowNext]_vars

(***************************************************************************)
(* Claims about GrowRegions, checked under SpecGrow.                       *)
(***************************************************************************)
\* A background pixel with neighbors of two or more different labels.
Collision(img, p, W, c) ==
    img[p] = 0 /\ Cardinality(NeighborLabels(img, p, W, c)) >= 2

\* C9: in every growth step a background pixel with neighbors (under the
\* caller's connectivity) of two or more different labels stays 0, no pixel
\* that has a label changes it, and no pixel outside the caller's mask is
\* assigned.
C9_GrowthStep ==
    [][ grow.pc = "growing" =>
            \A p \in 1..Len(grow.out) :
               /\ grow.out[p] # 0 => grow'.out[p] = grow.out[p]
               /\ Collision(grow.out, p, GrowW, grow.args.connectivity)
                     => grow'.out[p] = 0
               /\ (grow.out[p] = 0 /\ ~InsideMask(grow.args.mask, p))
                     => grow'.out[p] = 0
      ]_vars

\* C9 witness: a growth that took at least one step and ended with a
\* background pixel between two labels inside the mask, and with a background
\* pixel outside the mask next to a labeled one.
C9_Witness ==
    /\ grow.pc = "done"
    /\ grow.step >= 1
    /\ \E p \in 1..Len(grow.out) :
          /\ Collision(grow.out, p, GrowW, grow.args.connectivity)
          /\ InsideMask(grow.args.mask, p)
    /\ \E q \in 1..Len(grow.out) :
          /\ grow.out[q] = 0
          /\ ~InsideMask(grow.args.mask, q)
          /\ NeighborLabels(grow.out, q, GrowW, grow.args.connectivity) # {}

(***************************************************************************)
(* Image::View (diplib.h): a regular view refers to the window of the      *)
(* image it selects; a view with a mask refers to the image and a forged   *)
(* mask of its size; a view defined by indices refers to the image and the *)
(* (non-empty) list of the offsets of its pixels.  Image( view ) copies    *)
(* the selected pixels into a new image.                                   *)
(***************************************************************************)
ViewImages == [1..ViewPixels -> 0..ViewMaxLabel]

Views(maxOffsets) ==
    { [reference |-> img, mask |-> NoMask, offsets |-> << >>] : img \in ViewImages }
    \cup { [reference |-> img, mask |-> [forged |-> TRUE, px |-> S], offsets |-> << >>]
           : img \in ViewImages, S \in SUBSET (1..ViewPixels) }
    \cup UNION { { [reference |-> img, mask |-> NoMask, offsets |-> o]
                   : img \in ViewImages, o \in [1..n -> 1..ViewPixels] }
                 : n \in 1..maxOffsets }

ImageOfView(v) ==
    IF v.offsets # << >> THEN [i \in 1..Len(v.offsets) |-> v.reference[v.offsets[i]]]
    ELSE IF v.mask.forged
         THEN LET sel == Ascending(v.mask.px)
              IN [i \in 1..Len(sel) |-> v.reference[sel[i]]]
         ELSE v.reference

\* Mutant: the test of line 91 forgotten, every view is scanned through its
\* reference and mask.
GetObjectLabelsViewIgnoresOffsets(v, background) ==
    [image |-> v.reference, mask |-> v.mask, background |-> background]

\* regions.h:87-98: what the overload for a view hands over to
\* GetObjectLabels( label, mask, background ).
GetObjectLabelsView(v, background) ==
    IF v.offsets = << >>
    THEN [image |-> v.reference, mask |-> v.mask, background |-> background]
    ELSE [image |-> ImageOfView(v), mask |-> NoMask, background |-> background]

CallGetObjectLabels ==
    /\ objLabels.status = "none"
    /\ LET call == GetObjectLabelsView(
                      [reference |-> view.reference, mask |-> view.mask,
                       offsets |-> view.offsets], view.background)
       IN objLabels' = [status |-> "ok", image |-> call.image, mask |-> call.mask,
                        labels |-> GetObjectLabels(call.image, call.mask, call.background)]
    /\ UNCHANGED << bcVars, imgVars, labelVars, relabelVars, grow, view, featVars, mlVars >>

ViewInit ==
    /\ \E v \in Views(MaxOffsets), b \in {"include", "exclude"} :
          view = [reference |-> v.reference, mask |-> v.mask, offsets |-> v.offsets,
                  background |-> b]
    /\ objLabels = NoObjLabels
    /\ BroadcastIdle /\ ImageIdle /\ LabelIdle /\ RelabelIdle /\ GrowIdle
    /\ FeatureIdle /\ MatlabIdle

ViewNext == CallGetObjectLabels

SpecView == ViewInit /\ [][ViewNext]_vars

(***************************************************************************)
(* Claims about GetObjectLabels on a view, checked under SpecView.         *)
(***************************************************************************)
\* The labels of the pixels a view selects.
SelectedLabels(v) ==
    IF v.offsets # << >> THEN { v.reference[v.offsets[i]] : i \in 1..Len(v.offsets) }
    ELSE IF v.mask.forged THEN { v.reference[p] : p \in v.mask.px }
    ELSE { v.reference[p] : p \in 1..Len(v.reference) }

\* C10: GetObjectLabels on a view returns, without repetition, exactly the
\* labels of the pixels the view selects, 0 only with background "include"
\* (and then only when a selected pixel is 0); a view defined by indices is
\* copied and the copy scanned without a mask, any other view is scanned on
\* its reference with its mask.
C10_ViewLabels ==
    objLabels.status = "ok" =>
        LET got == { objLabels.labels[i] : i \in 1..Len(objLabels.labels) }
        IN /\ Cardinality(got) = Len(objLabels.labels)
           /\ got \ {0} = SelectedLabels(view) \ {0}
           /\ 0 \in got <=> (view.background = "include" /\ 0 \in SelectedLabels(view))
           /\ IF view.offsets # << >>
              THEN /\ ~objLabels.mask.forged
                   /\ Len(objLabels.image) = Len(view.offsets)
                   /\ \A i \in 1..Len(view.offsets) :
                         objLabels.image[i] = view.reference[view.offsets[i]]
              ELSE /\ objLabels.image = view.reference
                   /\ objLabels.mask = view.mask

\* C10 witness: a view defined by indices that leaves out a label of the
\* image and selects a background pixel, scanned with background "include".
C10_Witness ==
    /\ objLabels.status = "ok"
    /\ view.offsets # << >>
    /\ view.background = "include"
    /\ 0 \in SelectedLabels(view)
    /\ Len(objLabels.labels) >= 2
    /\ \E p \in 1..Len(view.reference) :
          view.reference[p] \notin SelectedLabels(view)

(***************************************************************************)
(* feature_grey_dimensions_cube.h: the composite measurement feature       *)
(* FeatureGreyDimensionsCube.  The object has two fields, nD_ and          *)
(* inertiaIndex_; the constructor (line 24) initialises neither, so a      *)
(* fresh object holds arbitrary values in both.                            *)
(*                                                                         *)
(* A label image is its dimensionality and the units of its pixel size     *)
(* along each axis.  Units are "px" (Units::Pixel()) or a physical unit;   *)
(* "m" and "um" differ in their SI prefix only, which lines 36-37 count    *)
(* as different units.                                                     *)
(***************************************************************************)
MaxObjects == 2                     \* largest number of objects in a measurement run
PixelUnits == {"px", "m", "um"}
LabelDimensionalities == 0..4       \* on both sides of the supported 2..3
FieldGarbage == {-1, 0, 3}          \* values an uninitialised field may hold

LabelImages ==
    UNION { [dimensionality : {k}, pixelSize : [1..k -> PixelUnits]] : k \in LabelDimensionalities }

\* PhysicalQuantity::IsPhysical and Image::PixelSize( ii ).units
IsPhysical(units) == units # "px"
PixelSizeUnits(label, ii) == label.pixelSize[ii + 1]

\* std::to_string in "axis" + std::to_string( ii ), lines 46
AxisName(ii) == << "axis0", "axis1", "axis2" >>[ii + 1]

\* Mutant: the loop of lines 33-42 forgotten, the units of axis 0 are used whenever physical.
DeclaredUnitsOfFirstAxis(label, nD) ==
    IF IsPhysical(PixelSizeUnits(label, 0)) THEN PixelSizeUnits(label, 0) ELSE "px"

\* Lines 31-43: pq = label.PixelSize( 0 ); sameUnits; units.
DeclaredUnits(label, nD) ==
    LET pq == PixelSizeUnits(label, 0)
        sameUnits == /\ IsPhysical(pq)
                     /\ \A ii \in 1..(nD - 1) : PixelSizeUnits(label, ii) = pq
    IN  IF sameUnits THEN pq ELSE "px"

\* Mutant: the two checks of lines 27-29 in the other order.
InitializeChecksDimensionalityFirst(self, label, greyScalar) ==
    LET nD == label.dimensionality
    IN  IF (nD < 2) \/ (nD > 3)
        THEN [threw |-> "DIMENSIONALITY_NOT_SUPPORTED", self |-> [self EXCEPT !.nD_ = nD], out |-> << >>]
        ELSE IF ~greyScalar
        THEN [threw |-> "NOT_SCALAR", self |-> [self EXCEPT !.nD_ = nD], out |-> << >>]
        ELSE [threw |-> "none",
              self  |-> [nD_ |-> nD, inertiaIndex_ |-> -1],
              out   |-> [ii \in 1..nD |->
                            [units |-> DeclaredUnits(label, nD), name |-> AxisName(ii - 1)]]]

\* Mutant: line 48 forgotten, inertiaIndex_ keeps the value it had.
InitializeKeepsIndex(self, label, greyScalar) ==
    LET nD == label.dimensionality
    IN  IF ~greyScalar
        THEN [threw |-> "NOT_SCALAR", self |-> self, out |-> << >>]
        ELSE IF (nD < 2) \/ (nD > 3)
        THEN [threw |-> "DIMENSIONALITY_NOT_SUPPORTED", self |-> [self EXCEPT !.nD_ = nD], out |-> << >>]
        ELSE [threw |-> "none",
              self  |-> [self EXCEPT !.nD_ = nD],
              out   |-> [ii \in 1..nD |->
                            [units |-> DeclaredUnits(label, nD), name |-> AxisName(ii - 1)]]]

\* Lines 26-50.  Line 27 throws before anything is assigned; line 28 assigns
\* nD_ before line 29 throws; line 48 resets inertiaIndex_ on success only.
Initialize(self, label, greyScalar) ==
    LET nD == label.dimensionality
    IN  IF ~greyScalar
        THEN [threw |-> "NOT_SCALAR", self |-> self, out |-> << >>]
        ELSE IF (nD < 2) \/ (nD > 3)
        THEN [threw |-> "DIMENSIONALITY_NOT_SUPPORTED", self |-> [self EXCEPT !.nD_ = nD], out |-> << >>]
        ELSE [threw |-> "none",
              self  |-> [nD_ |-> nD, inertiaIndex_ |-> -1],
              out   |-> [ii \in 1..nD |->
                            [units |-> DeclaredUnits(label, nD), name |-> AxisName(ii - 1)]]]

\* Lines 52-56.
Dependencies == << "GreyInertia" >>

(***************************************************************************)
(* The measurement the feature is composed from (Measurement and its       *)
(* IteratorObject are not part of the sources at hand).  The registered    *)
(* features are laid out one after the other in a row of values per        *)
(* object; ValueIndex( name ) is the column where the feature's values     *)
(* start, and FirstFeature() points at column 0.                           *)
(***************************************************************************)
FeatureNames == {"GreyInertia", "Size", "Gravity"}

\* Every ordering of every set of features.
Layouts ==
    { f \in UNION { [1..k -> FeatureNames] : k \in 1..Cardinality(FeatureNames) } :
        \A i, j \in 1..Len(f) : i # j => f[i] # f[j] }

NumberValues(name, nD) == IF name = "Size" THEN 1 ELSE nD

\* What the measurement holds for value k of a feature of an object.
FeatureValue(name, k, object) ==
    CASE name = "GreyInertia" -> 10 * object + 3 - k
      [] name = "Gravity"     -> 100 + 10 * object + k
      [] OTHER                -> 200 + object

RECURSIVE ValueIndexFrom(_, _, _, _)
ValueIndexFrom(features, name, nD, i) ==
    IF features[i] = name THEN 0
    ELSE NumberValues(features[i], nD) + ValueIndexFrom(features, name, nD, i + 1)

ValueIndex(features, name, nD) == ValueIndexFrom(features, name, nD, 1)

RECURSIVE ObjectRow(_, _, _)
ObjectRow(features, nD, object) ==
    IF features = << >> THEN << >>
    ELSE [k \in 1..NumberValues(Head(features), nD) |-> FeatureValue(Head(features), k - 1, object)]
            \o ObjectRow(Tail(features), nD, object)

IteratorObject(features, nD, object) ==
    [features |-> features, nD |-> nD, row |-> ObjectRow(features, nD, object)]

\* it[ index ] for it = dependencies.FirstFeature(); a read outside the row
\* yields an indeterminate value, written -1.
ValueAt(dependencies, index) ==
    IF index + 1 \in 1..Len(dependencies.row) THEN dependencies.row[index + 1] ELSE -1

\* std::sqrt( x ), kept as the radicand.
Sqrt(x) == [sqrt |-> x]

\* Lines 64-71 given data = &it[ index ].
CubeSizes(nD_, dependencies, index) ==
    LET data(k) == ValueAt(dependencies, index + k)
    IN  IF nD_ = 2
        THEN << Sqrt(12 * data(0)), Sqrt(12 * data(1)) >>
        ELSE << Sqrt(6 * (data(0) + data(1) - data(2))),
                Sqrt(6 * (data(0) - data(1) + data(2))),
                Sqrt(6 * (0 - data(0) + data(1) + data(2))) >>

\* Mutant: lines 60-62 forgotten, data is taken at the first feature.
ComposeReadsFirstFeature(self, dependencies) ==
    [self |-> self, lookup |-> FALSE, index |-> 0, output |-> CubeSizes(self.nD_, dependencies, 0)]

\* Lines 58-72.
Compose(self, dependencies) ==
    LET lookup == self.inertiaIndex_ = -1
        index  == IF lookup
                  THEN ValueIndex(dependencies.features, "GreyInertia", dependencies.nD)
                  ELSE self.inertiaIndex_
    IN  [self   |-> [self EXCEPT !.inertiaIndex_ = index],
         lookup |-> lookup,
         index  |-> index,
         output |-> CubeSizes(self.nD_, dependencies, index)]

\* The measurement host registers the requested features and the features
\* they depend on, and counts the objects.
AddFeatures ==
    /\ measurement.pc \in {"idle", "done", "failed"}
    /\ \E features \in Layouts, nObjects \in 1..MaxObjects :
          /\ \A d \in 1..Len(Dependencies) : \E i \in 1..Len(features) : features[i] = Dependencies[d]
          /\ measurement' = [pc |-> "configured", features |-> features, nObjects |-> nObjects,
                             composed |-> 0, lookups |-> 0]
    /\ initCall' = NoInitialize
    /\ composeCall' = NoCompose
    /\ UNCHANGED << bcVars, imgVars, regionVars, feature, mlVars >>

CallInitialize ==
    /\ measurement.pc = "configured"
    /\ \E label \in LabelImages, greyScalar \in BOOLEAN :
          LET r == Initialize(feature, label, greyScalar)
          IN  /\ feature' = r.self
              /\ initCall' = [status |-> IF r.threw = "none" THEN "ok" ELSE r.threw, label |-> label, greyScalar |-> greyScalar,
                              cached |-> feature.inertiaIndex_, out |-> r.out]
              /\ measurement' = [measurement EXCEPT
                                    !.pc = IF r.threw = "none" THEN "running" ELSE "failed"]
    /\ UNCHANGED << bcVars, imgVars, regionVars, composeCall, mlVars >>

CallCompose ==
    /\ measurement.pc = "running"
    /\ LET object == measurement.composed + 1
           r == Compose(feature,
                        IteratorObject(measurement.features, initCall.label.dimensionality, object))
       IN  /\ feature' = r.self
           /\ composeCall' = [object |-> object, index |-> r.index, lookup |-> r.lookup,
                              output |-> r.output]
           /\ measurement' = [measurement EXCEPT
                                 !.composed = object,
                                 !.lookups = @ + (IF r.lookup THEN 1 ELSE 0),
                                 !.pc = IF object = measurement.nObjects THEN "done" ELSE "running"]
    /\ UNCHANGED << bcVars, imgVars, regionVars, initCall, mlVars >>

FeatureInit ==
    /\ feature \in [nD_ : FieldGarbage \ {-1}, inertiaIndex_ : FieldGarbage]
    /\ measurement = NoMeasurement
    /\ initCall = NoInitialize
    /\ composeCall = NoCompose
    /\ BroadcastIdle /\ ImageIdle /\ RegionsIdle /\ MatlabIdle

FeatureNext == AddFeatures \/ CallInitialize \/ CallCompose

SpecFeature == FeatureInit /\ [][FeatureNext]_vars

\* C11: Initialize fails with NOT_SCALAR when the grey image is not scalar;
\* otherwise it fails with DIMENSIONALITY_NOT_SUPPORTED exactly when the
\* label image has fewer than 2 or more than 3 dimensions; otherwise it
\* succeeds.
C11_InitializeErrors ==
    initCall.status # "none" =>
        LET nD == initCall.label.dimensionality
        IN  initCall.status =
               IF ~initCall.greyScalar THEN "NOT_SCALAR"
               ELSE IF nD < 2 \/ nD > 3 THEN "DIMENSIONALITY_NOT_SUPPORTED"
               ELSE "ok"

C11_Witness ==
    /\ initCall.status = "NOT_SCALAR"
    /\ initCall.label.dimensionality = 1

\* C12: a successful Initialize declares one value per dimension of the
\* label image and Compose writes that many values; the declared units are
\* those of the pixel size along axis 0 when they are physical and every
\* other axis has the same units, and the pixel unit in every other case.
C12_ValuesAndUnits ==
    LET label == initCall.label
        nD    == label.dimensionality
        same  == /\ label.pixelSize[1] # "px"
                 /\ \A a \in 2..nD : label.pixelSize[a] = label.pixelSize[1]
    IN  /\ initCall.status = "ok" =>
              /\ Len(initCall.out) = nD
              /\ \A ii \in 1..nD :
                    initCall.out[ii].units = IF same THEN label.pixelSize[1] ELSE "px"
        /\ composeCall.object > 0 => Len(composeCall.output) = Len(initCall.out)

C12_Witness ==
    /\ initCall.status = "ok"
    /\ initCall.label.pixelSize = << "m", "m", "um" >>
    /\ composeCall.object > 0

\* C13: the only dependency is "GreyInertia", and the values Compose writes
\* for an object are computed from the GreyInertia values of that object,
\* wherever GreyInertia stands among the registered features: with the
\* features registered in any other order the output would be the same.
C13_PositionIndependent ==
    /\ Dependencies = << "GreyInertia" >>
    /\ composeCall.object > 0 =>
          LET nD == initCall.label.dimensionality
              I(k) == FeatureValue("GreyInertia", k, composeCall.object)
              fresh == [nD_ |-> nD, inertiaIndex_ |-> -1]
          IN  /\ composeCall.output =
                    IF nD = 2
                    THEN << Sqrt(12 * I(0)), Sqrt(12 * I(1)) >>
                    ELSE << Sqrt(6 * (I(0) + I(1) - I(2))),
                            Sqrt(6 * (I(0) - I(1) + I(2))),
                            Sqrt(6 * (I(1) + I(2) - I(0))) >>
              /\ \A f \in Layouts :
                    (\E i \in 1..Len(f) : f[i] = "GreyInertia") =>
                        Compose(fresh, IteratorObject(f, nD, composeCall.object)).output
                            = composeCall.output

C13_Witness ==
    /\ composeCall.object > 0
    /\ measurement.features[1] = "Gravity"
    /\ measurement.features[2] = "GreyInertia"
    /\ composeCall.index = 3

\* C19: in every measurement run (a successful Initialize, then one Compose
\* per object) each Compose uses the index that looking up "GreyInertia"
\* yields for the features registered in this run; the lookup is made by
\* the first Compose of the run and by no other, and the run starts with no
\* index cached, whatever an earlier run left in inertiaIndex_.
C19_IndexOfThisRun ==
    /\ (measurement.pc = "running" /\ measurement.composed = 0) => feature.inertiaIndex_ = -1
    /\ composeCall.object > 0 =>
          /\ composeCall.index =
                ValueIndex(measurement.features, "GreyInertia", initCall.label.dimensionality)
          /\ composeCall.lookup <=> composeCall.object = 1
          /\ measurement.lookups = 1
          /\ feature.inertiaIndex_ = composeCall.index

\* The second Compose of a run whose features are laid out differently from
\* the run before: the earlier run cached index 1, this run reads at index 0.
C19_Witness ==
    /\ initCall.status = "ok"
    /\ initCall.cached = 1
    /\ composeCall.object = 2
    /\ composeCall.index = 0

(***************************************************************************)
(* Further claims about OptimalProcessingDim, checked under SpecOptimal.   *)
(***************************************************************************)
\* The choice (1-based) the loop of lines 83-92 holds once it has looked at
\* the first k dimensions.
ChoiceAfter(img, k) == OptimalLoop(SubSeq(img.strides, 1, k), SubSeq(img.sizes, 1, k), 1, 2)

\* C15: ties go to the first dimension encountered.  The dimension returned
\* has no equal (same stride, same extent) at a lower index, and looking at
\* one more dimension changes the choice only to that dimension and only
\* when it has a strictly smaller stride or a strictly larger extent than
\* the choice so far.
C15_FirstWins ==
    (processingDim # -1 /\ Len(image.sizes) >= 1) =>
        LET r == processingDim + 1
            n == Len(image.sizes)
        IN  /\ r = ChoiceAfter(image, n)
            /\ \A k \in 1..(r - 1) :
                  ~(image.strides[k] = image.strides[r] /\ image.sizes[k] = image.sizes[r])
            /\ \A k \in 1..(n - 1) :
                  LET before == ChoiceAfter(image, k)
                      after  == ChoiceAfter(image, k + 1)
                  IN  after # before =>
                         /\ after = k + 1
                         /\ \/ image.strides[after] < image.strides[before]
                            \/ image.sizes[after] > image.sizes[before]

\* The second and third dimension tie, both beat the first: the second wins.
C15_Witness ==
    /\ image.sizes = << 10, 100, 100 >>
    /\ image.strides = << 1, 2, 2 >>
    /\ processingDim = 1

\* C17: for an image with at least one dimension the result is a valid
\* dimension index, and the dimension has an extent above SMALL_IMAGE or
\* the largest extent of all.
C17_ValidAndNotSmall ==
    (processingDim # -1 /\ Len(image.sizes) >= 1) =>
        /\ processingDim \in 0..(Len(image.sizes) - 1)
        /\ \/ image.sizes[processingDim + 1] > 63
           \/ \A k \in 1..Len(image.sizes) : image.sizes[k] <= image.sizes[processingDim + 1]

\* The dimension of smallest stride has extent 63 and a longer one exists.
C17_Witness ==
    /\ Len(image.sizes) = 2
    /\ image.sizes = << 63, 64 >>
    /\ image.strides = << 1, 2 >>
    /\ processingDim = 1

(***************************************************************************)
(* The MATLAB interface (src/examples/CMakeLists.txt:104-575).             *)
(*                                                                         *)
(* An mxArray made by AllocateData is a record of mx; array number a has   *)
(* data pointer a, and 0 stands for nullptr.  Data pointer 0 is a data     *)
(* segment the interface did not allocate (the data of an input mxArray,   *)
(* or a segment taken from the heap).  mla is a set of pairs               *)
(* << data pointer, array >> with at most one pair per pointer.  An image  *)
(* is its data pointer, the offset of its origin in the segment, its       *)
(* sizes, strides, tensor elements, tensor stride and data type.           *)
(***************************************************************************)
MaxArrays == 2          \* largest number of mxArrays AllocateData creates
MaxImages == 1          \* largest number of dip::Image objects alive
MaxMlDims == 3          \* largest dimensionality of a forged image
TensorElements == {1, 2}
DataTypes == {"UINT8", "SCOMPLEX"}

\* One image size per dimensionality: 3, 3x2, 3x2x3, ...
MlShapes(n) == { [ii \in 1..k |-> IF ii % 2 = 1 THEN 3 ELSE 2] : k \in 0..n }

IsComplex(dt) == dt \in {"SCOMPLEX", "DCOMPLEX"}
RealType(dt) == IF dt = "SCOMPLEX" THEN "SFLOAT" ELSE IF dt = "DCOMPLEX" THEN "DFLOAT" ELSE dt

\* Lines 210-245.
GetMatlabClassID(dt) ==
    CASE dt \in {"BIN", "UINT8"}        -> "mxUINT8_CLASS"
      [] dt = "SINT8"                   -> "mxINT8_CLASS"
      [] dt = "UINT16"                  -> "mxUINT16_CLASS"
      [] dt = "SINT16"                  -> "mxINT16_CLASS"
      [] dt = "UINT32"                  -> "mxUINT32_CLASS"
      [] dt = "SINT32"                  -> "mxINT32_CLASS"
      [] dt \in {"SFLOAT", "SCOMPLEX"}  -> "mxSINGLE_CLASS"
      [] dt \in {"DFLOAT", "DCOMPLEX"}  -> "mxDOUBLE_CLASS"

\* std::map: count, operator[] (which inserts a nullptr for a new key), erase.
MapCount(map, p) == Cardinality({ e \in map : e[1] = p })
MapAt(map, p) == IF MapCount(map, p) = 0 THEN 0 ELSE (CHOOSE e \in map : e[1] = p)[2]
MapTouch(map, p) == IF MapCount(map, p) = 0 THEN map \cup { << p, 0 >> } ELSE map
MapErase(map, p) == { e \in map : e[1] # p }
MapAssign(map, p, m) == MapErase(map, p) \cup { << p, m >> }

Swap01(a) == IF Len(a) >= 2 THEN [a EXCEPT ![1] = a[2], ![2] = a[1]] ELSE a

RECURSIVE Product(_, _)
Product(a, k) == IF k = 0 THEN 1 ELSE a[k] * Product(a, k - 1)

\* Lines 319-344 of AllocateData: the dimensions and class of the mxArray
\* and the strides reported back.
MatlabLayout(sizes, telem, dt) ==
    LET n       == Len(sizes)
        swapped == Swap01(sizes)
        mlsizes == IF telem > 1 THEN Append(swapped, telem) ELSE swapped
    IN  [dims    |-> Resize(mlsizes, 2, 1),
         class   |-> GetMatlabClassID(dt),
         strides |-> Swap01([ii \in 1..n |-> Product(swapped, ii - 1)]),
         tstride |-> Product(swapped, n)]

\* Lines 153-183.
RECURSIVE StridesLoop(_, _, _, _)
StridesLoop(sizes, strides, total, ii) ==
    IF ii > Len(sizes) THEN [ok |-> TRUE, total |-> total]
    ELSE IF strides[ii] # total THEN [ok |-> FALSE, total |-> total]
    ELSE StridesLoop(sizes, strides, total * sizes[ii], ii + 1)

IsMatlabStrides(sizes, telem, strides, tstride) ==
    IF Len(sizes) # Len(strides) THEN FALSE
    ELSE IF Len(sizes) < 2 THEN TRUE
    ELSE IF strides[2] # 1 THEN FALSE
    ELSE IF strides[1] # sizes[2] THEN FALSE
    ELSE LET r == StridesLoop(sizes, strides, sizes[2] * sizes[1], 3)
         IN  r.ok /\ ~((telem > 1) /\ (tstride # r.total))

\* Lines 185-208 when a read past the end of sizes yields `past`.  n counts
\* the tensor dimension, sizes does not: for telem > 1 line 195 reads
\* sizes[ 0 ] of a 0-D image, line 198 reads sizes[ 1 ] of a 1-D image, and
\* the last round of the loop of lines 201-205, which starts at ii = 3,
\* reads sizes[ sizes.size() ].
SizeAt(sizes, ii, past) == IF ii < Len(sizes) THEN sizes[ii + 1] ELSE past

MatchDimensionsReading(sizes, telem, psizes, ndims, past) ==
    LET n == Len(sizes) + (IF telem > 1 THEN 1 ELSE 0)
    IN  IF n = 0
        THEN ~((ndims # 2) \/ (psizes[1] # 1) \/ (psizes[2] # 1))
        ELSE IF n = 1
        THEN ~((ndims # 2) \/ (psizes[1] # SizeAt(sizes, 0, past) * telem) \/ (psizes[2] # 1))
        ELSE IF \/ ndims # n
                \/ psizes[1] # SizeAt(sizes, 1, past)
                \/ psizes[2] # SizeAt(sizes, 0, past)
        THEN FALSE
        ELSE \A ii \in 3..(n - 1) : SizeAt(sizes, ii, past) = psizes[ii + 1]

\* The values the call can return, whatever lies past the end of sizes.
PastTheEnd == {0, 1, 2, 3}
MatchDimensions(sizes, telem, psizes, ndims) ==
    { MatchDimensionsReading(sizes, telem, psizes, ndims, past) : past \in PastTheEnd }

\* mxCreateNumericArray as AllocateData calls it (lines 347-350): a new
\* array, registered under its data pointer.
NewArray(layout) ==
    [dims |-> layout.dims, class |-> layout.class, handedOut |-> FALSE, destroyed |-> 0,
     released |-> FALSE, releasedHandedOut |-> FALSE]

\* Lines 303-353 for a data type that is not complex.
AllocateData(map, arrays, sizes, telem, dt) ==
    LET layout == MatlabLayout(sizes, telem, dt)
        m      == Len(arrays) + 1
    IN  [mla |-> MapAssign(map, m, m), mx |-> Append(arrays, NewArray(layout)), p |-> m,
         strides |-> layout.strides, tstride |-> layout.tstride]

\* mxDestroyArray; a nullptr argument is ignored.  Nothing reads the
\* dimensions or the class of an array that left the map, so they are
\* forgotten.
DestroyArray(arrays, m) ==
    IF m = 0 THEN arrays
    ELSE [arrays EXCEPT ![m].destroyed = @ + 1, ![m].dims = << >>, ![m].class = "none"]

\* Lines 284-291, StripHandler::operator().
StripHandler(map, arrays, p) ==
    IF MapCount(map, p) = 0
    THEN [mla |-> map, mx |-> arrays]
    ELSE [mla |-> MapErase(map, p), mx |-> DestroyArray(arrays, MapAt(map, p))]

\* The shared_ptr of data pointer p lets go of its last owner: the deleter
\* runs; the array that lives at p remembers that, and whether it had been
\* handed out by then.
Release(map, arrays, p) ==
    LET r == StripHandler(map, arrays, p)
    IN  [mla |-> r.mla,
         mx  |-> [r.mx EXCEPT ![p].released = TRUE, ![p].releasedHandedOut = arrays[p].handedOut]]

HandOut(arrays, m) ==
    [arrays EXCEPT ![m].handedOut = TRUE, ![m].dims = << >>, ![m].class = "none"]

\* Mutant: line 397 forgotten, the array handed out stays in the map.
GetArrayDirectKeepsEntry(map, arrays, p, m) ==
    [mla |-> map, mx |-> HandOut(arrays, m), array |-> m, dims |-> arrays[m].dims,
     copied |-> FALSE]

\* Lines 395-398, the array is returned as it is.
GetArrayDirect(map, arrays, p, m) ==
    [mla |-> MapErase(map, p), mx |-> HandOut(arrays, m), array |-> m, dims |-> arrays[m].dims,
     copied |-> FALSE]

\* Lines 387-394: tmp = NewImage(); tmp.Copy( img ) forges tmp through
\* AllocateData; its array is taken out of the map and returned; tmp then
\* goes out of scope and its deleter runs.
GetArrayCopy(map, arrays, img) ==
    LET a  == AllocateData(map, arrays, img.sizes, img.telem, img.dt)
        m  == MapAt(a.mla, a.p)
        m1 == MapErase(MapTouch(a.mla, a.p), a.p)
        r  == Release(m1, HandOut(a.mx, m), a.p)
    IN  [mla |-> r.mla, mx |-> r.mx, array |-> m, dims |-> a.mx[m].dims, copied |-> TRUE]

\* Lines 359-373: the two planes are copied into images real and imag, whose
\* arrays go into MATLAB's complex(), which makes the array returned (array 0
\* here: AllocateData did not make it); real and imag then go out of scope.
GetArrayComplex(map, arrays, img) ==
    LET re == AllocateData(map, arrays, img.sizes, img.telem, RealType(img.dt))
        im == AllocateData(re.mla, re.mx, img.sizes, img.telem, RealType(img.dt))
        m1 == MapTouch(MapTouch(im.mla, re.p), im.p)
        r1 == Release(m1, im.mx, im.p)
        r2 == Release(r1.mla, r1.mx, re.p)
    IN  [mla |-> r2.mla, mx |-> r2.mx, array |-> 0, dims |-> re.mx[re.p].dims, copied |-> TRUE]

\* Lines 374-386, what the test of the if statement can evaluate to; the
\* operands after a true one are not evaluated.
NeedsCopy(map, arrays, img) ==
    LET m == MapAt(map, img.data)
    IN  IF \/ m = 0
           \/ img.origin # 0
           \/ ~IsMatlabStrides(img.sizes, img.telem, img.strides, img.tstride)
        THEN { TRUE }
        ELSE { (~match) \/ (arrays[m].class # GetMatlabClassID(img.dt)) :
                  match \in MatchDimensions(img.sizes, img.telem, arrays[m].dims,
                                            Len(arrays[m].dims)) }

\* Lines 359-402 for a forged image; copy is the outcome of the test.
GetArray(map, arrays, img, copy) ==
    IF IsComplex(img.dt)
    THEN GetArrayComplex(map, arrays, img)
    ELSE LET touched == MapTouch(map, img.data)
         IN  IF copy
             THEN GetArrayCopy(touched, arrays, img)
             ELSE GetArrayDirect(touched, arrays, img.data, MapAt(touched, img.data))

\* An image forged through the interface (NewImage, then Forge): a complex
\* one gets no mxArray (lines 313-315) and takes its data from the heap.
ForgeImage ==
    /\ Cardinality(dipImages) < MaxImages
    /\ Len(mx) < MaxArrays
    /\ \E sizes \in MlShapes(MaxMlDims), telem \in TensorElements, dt \in DataTypes :
          LET layout == MatlabLayout(sizes, telem, dt)
              a      == AllocateData(mla, mx, sizes, telem, dt)
              img    == [data |-> IF IsComplex(dt) THEN 0 ELSE a.p, origin |-> 0, sizes |-> sizes,
                         strides |-> layout.strides, telem |-> telem, tstride |-> layout.tstride,
                         dt |-> dt]
          IN  /\ dipImages' = dipImages \cup { img }
              /\ mla' = IF IsComplex(dt) THEN mla ELSE a.mla
              /\ mx' = IF IsComplex(dt) THEN mx ELSE a.mx
    /\ getCall' = NoGetArray
    /\ UNCHANGED << bcVars, imgVars, regionVars, featVars >>

\* GetImage( mxArray const* ) on a 3x2 input array of class uint8: an image
\* over the data of that array, with a deleter that does nothing; the
\* interface is not told.
InputImage ==
    LET layout == MatlabLayout(<< 2, 3 >>, 1, "UINT8")
    IN  [data |-> 0, origin |-> 0, sizes |-> << 2, 3 >>, strides |-> layout.strides, telem |-> 1,
         tstride |-> layout.tstride, dt |-> "UINT8"]

CallGetImage ==
    /\ Cardinality(dipImages) < MaxImages
    /\ InputImage \notin dipImages
    /\ dipImages' = dipImages \cup { InputImage }
    /\ getCall' = NoGetArray
    /\ UNCHANGED << bcVars, imgVars, regionVars, featVars, mla, mx >>

\* The images on the data segment of img that GetArray may be handed: img
\* itself, or a view of it made for the call, with one dimension cropped by
\* one pixel at its end or at its start, the last tensor element dropped, or
\* the first two dimensions swapped.
ViewsOf(img) ==
    { img }
    \cup
    { [img EXCEPT !.sizes[d] = @ - 1] : d \in { k \in 1..Len(img.sizes) : img.sizes[k] >= 2 } }
    \cup
    { [img EXCEPT !.sizes[d] = @ - 1, !.origin = @ + img.strides[d]] :
         d \in { k \in 1..Len(img.sizes) : img.sizes[k] >= 2 } }
    \cup
    { [img EXCEPT !.telem = @ - 1] : t \in { k \in {img.telem} : k >= 2 } }
    \cup
    { [img EXCEPT !.sizes = Swap01(@), !.strides = Swap01(@)] :
         t \in { k \in {Len(img.sizes)} : k >= 2 } }

\* An image goes out of scope.  When it was the last one on a data segment
\* that AllocateData made, the segment's deleter runs.
DropImage ==
    /\ \E img \in dipImages :
          /\ dipImages' = dipImages \ { img }
          /\ IF img.data # 0 /\ \A o \in dipImages \ { img } : o.data # img.data
             THEN LET r == Release(mla, mx, img.data)
                  IN  mla' = r.mla /\ mx' = r.mx
             ELSE UNCHANGED << mla, mx >>
    /\ getCall' = NoGetArray
    /\ UNCHANGED << bcVars, imgVars, regionVars, featVars >>

CallGetArray ==
    /\ \E img \in UNION { ViewsOf(i) : i \in dipImages } :
          \E copy \in (IF IsComplex(img.dt) THEN { TRUE } ELSE NeedsCopy(MapTouch(mla, img.data), mx, img)) :
             /\ Len(mx) + (IF IsComplex(img.dt) THEN 2 ELSE IF copy THEN 1 ELSE 0) <= MaxArrays
             /\ LET r == GetArray(mla, mx, img, copy)
                IN  /\ mla' = r.mla
                    /\ mx' = r.mx
                    /\ getCall' = [status |-> "returned", image |-> img, array |-> r.array,
                                   copied |-> r.copied,
                                   dims |-> r.dims]
    /\ UNCHANGED << bcVars, imgVars, regionVars, featVars, dipImages >>

\* GetArray on an image that was not forged: line 357 throws.
CallGetArrayRaw ==
    /\ getCall' = [NoGetArray EXCEPT !.status = "IMAGE_NOT_FORGED"]
    /\ UNCHANGED << bcVars, imgVars, regionVars, featVars, mla, mx, dipImages >>

MatlabInit ==
    /\ mla = {}
    /\ mx = << >>
    /\ dipImages = {}
    /\ getCall = NoGetArray
    /\ BroadcastIdle /\ ImageIdle /\ RegionsIdle /\ FeatureIdle

MatlabNext ==
    \/ ForgeImage
    \/ CallGetImage
    \/ DropImage
    \/ CallGetArray
    \/ CallGetArrayRaw

SpecMatlab == MatlabInit /\ [][MatlabNext]_vars

\* C14: an array made by AllocateData is destroyed when the data pointer it
\* lives at is released, unless GetArray had handed it out by then; it is
\* destroyed at no other time, never twice, and never once handed out.
C14_DestroyedUnlessHandedOut ==
    \A m \in 1..Len(mx) :
        /\ mx[m].destroyed <= 1
        /\ mx[m].handedOut => mx[m].destroyed = 0
        /\ mx[m].destroyed = 1 => mx[m].released
        /\ mx[m].released => (mx[m].destroyed = 1 <=> ~mx[m].releasedHandedOut)

\* Two data pointers were released: one whose array GetArray had handed out,
\* which was left alone, and one whose array was still in the map, which
\* was destroyed.
C14_Witness ==
    \E m, k \in 1..Len(mx) :
        /\ mx[m].released /\ mx[m].releasedHandedOut /\ mx[m].destroyed = 0
        /\ mx[k].released /\ ~mx[k].handedOut /\ mx[k].destroyed = 1
        /\ dipImages = {}

\* C16: for a forged image that is not complex, GetArray returns the
\* registered array itself only when the image is an unmodified view of it
\* (origin at the data pointer, MATLAB strides, matching class, every
\* dimension of the array equal to the image's size there, the first two
\* swapped and the tensor elements last), and a fresh copy otherwise; so the
\* dimensions of the array returned always match the sizes of the image.
C16_DirectOnlyIfUnmodified ==
    (getCall.status = "returned" /\ ~IsComplex(getCall.image.dt)) =>
        LET img    == getCall.image
            layout == MatlabLayout(img.sizes, img.telem, img.dt)
        IN  /\ ~getCall.copied =>
                  /\ getCall.array = img.data
                  /\ img.origin = 0
                  /\ img.strides = layout.strides
                  /\ img.telem > 1 => img.tstride = layout.tstride
                  /\ getCall.dims = layout.dims
            /\ getCall.dims = layout.dims

\* The image is a 3-D one cropped along its last dimension, and GetArray
\* returned the array it was cropped from.
C16_CroppedReturnedWhole ==
    /\ getCall.status = "returned"
    /\ ~getCall.copied
    /\ Len(getCall.image.sizes) = 3
    /\ getCall.dims[3] # getCall.image.sizes[3]

\* C18: every entry of mla holds an array that AllocateData made and that
\* was neither destroyed nor handed out, never a nullptr; after GetArray on
\* an image whose data the interface did not allocate, the map has no entry
\* for that data pointer.
C18_MapHoldsLiveArrays ==
    /\ \A e \in mla :
          /\ e[2] \in 1..Len(mx)
          /\ mx[e[2]].destroyed = 0
          /\ ~mx[e[2]].handedOut
    /\ MapCount(mla, 0) = 0

====
